---- MODULE Spec2Model ----
(***************************************************************************)
(* A model of easy_thumbnails/processors.py: the geometry of               *)
(* scale_and_crop (scaling, centered / edge / smart cropping), the tiling  *)
(* loop of watermark, and the control flow of add_watermark.               *)
(*                                                                         *)
(* An image is represented by its size <<width, height>>; the raster       *)
(* backend (PIL) is represented by the sizes its resize and crop produce.  *)
(* Python floats are exact rationals <<numerator, denominator>> with a     *)
(* positive denominator.  Python strings are sequences of one-character    *)
(* strings.  One call of one processor is made per behaviour; op says      *)
(* which, and pc is the position inside it.                                *)
(***************************************************************************)
EXTENDS Integers, Sequences, FiniteSets, TLC

VARIABLES
    op,             \* the processor called
    pc,             \* "call", "smart_x", "smart_y", "done"
    \* scale_and_crop: arguments
    im_size,        \* im.size on entry
    size,           \* the requested size
    crop,           \* the crop argument (a Python value)
    upscale,        \* the upscale argument
    \* scale_and_crop: locals and calls made to the backend
    scale,          \* scale, a rational (<<>> before it is computed)
    target,         \* <<target_x, target_y>>, two rationals
    resize_arg,     \* the size passed to im.resize (<<>>: resize not called)
    im,             \* size of the image im currently names
    diff_x, diff_y,
    box,            \* the crop box (<<>>: not computed)
    crop_arg,       \* the box passed to im.crop (<<>>: crop not called)
    sc_result,      \* how the call ended ("pending" until it has)
    left, top, right, bottom,
    slice, add, remove,
    \* _compare_entropy: parameters and locals of the latest call
    start_entropy, end_entropy, difference,
    \* watermark: arguments and the pastes made on the layer
    img, mark, position, tile, first, pastes,
    \* add_watermark: arguments, the file system, and the outcome
    wm_mark, wm_exists, wm_kwargs, wm_result

scVars == <<im_size, size, crop, upscale, scale, target, resize_arg, im,
            diff_x, diff_y, box, crop_arg, sc_result, left, top, right,
            bottom, slice, add, remove, start_entropy, end_entropy, difference>>
wmVars == <<img, mark, position, tile, first, pastes>>
awVars == <<wm_mark, wm_exists, wm_kwargs, wm_result>>
vars == <<op, pc, scVars, wmVars, awVars>>

(***************************************************************************)
(* Bounds of the model.                                                    *)
(***************************************************************************)
MaxSrc == 3         \* small source sides are 1..MaxSrc
LongSide == 58      \* one long source side, for crops of many slices
MaxTgt == 3         \* target sides are 0..MaxTgt
MaxImg == 3         \* watermarked image sides are 0..MaxImg
MaxMark == 3        \* resized mark sides are 1..MaxMark
MaxPos == 3         \* resolved watermark positions are -MaxPos..MaxPos

(***************************************************************************)
(* Python values.                                                          *)
(***************************************************************************)
PyNone == [type |-> "NoneType", chars |-> <<"None">>]
PyFalse == [type |-> "bool", chars |-> <<"False">>]
PyTrue == [type |-> "bool", chars |-> <<"True">>]
Str(s) == [type |-> "str", chars |-> s]

\* bool(v)
Truthy(v) ==
    IF v.type = "str" THEN Len(v.chars) > 0 ELSE v = PyTrue

PyMax(a, b) == IF b > a THEN b ELSE a
PyMin(a, b) == IF b < a THEN b ELSE a

Abs(n) == IF n < 0 THEN -n ELSE n

\* Rationals <<n, d>>, d > 0.
RatLess(p, q) == p[1] * q[2] < q[1] * p[2]
RatMax(p, q) == IF RatLess(p, q) THEN q ELSE p
RatMin(p, q) == IF RatLess(q, p) THEN q ELSE p
RatMul(k, p) == <<k * p[1], p[2]>>
\* int(p) for p >= 0
Trunc(p) == p[1] \div p[2]

\* int(round(p)) for p >= 0.  Python 2 rounds a half away from zero,
\* Python 3 to the even neighbour; six in the imports says the module is
\* meant for both.
PyRoundModes == {"half_away", "half_even"}
Round(p, mode) ==
    LET fl == p[1] \div p[2]
        twice == 2 * (p[1] - fl * p[2])     \* 2 * fractional part * d
    IN  IF twice < p[2] THEN fl
        ELSE IF twice > p[2] THEN fl + 1
        ELSE IF mode = "half_away" THEN fl + 1
        ELSE IF fl % 2 = 0 THEN fl ELSE fl + 1

(***************************************************************************)
(* scale_and_crop: scaling.                                                *)
(***************************************************************************)
\* ScaleOf with the cover-fit scale in every case.
ScaleOfAlwaysCover(source_x, source_y, target_x, target_y, c) ==
    RatMax(<<target_x, source_x>>, <<target_y, source_y>>)

\* ScaleOf without the test for a zero placeholder axis.
ScaleOfNoPlaceholder(source_x, source_y, target_x, target_y, c) ==
    IF Truthy(c)
    THEN RatMax(<<target_x, source_x>>, <<target_y, source_y>>)
    ELSE RatMin(<<target_x, source_x>>, <<target_y, source_y>>)

\* lines 142-145
ScaleOf(source_x, source_y, target_x, target_y, c) ==
    IF Truthy(c) \/ target_x = 0 \/ target_y = 0
    THEN RatMax(<<target_x, source_x>>, <<target_y, source_y>>)
    ELSE RatMin(<<target_x, source_x>>, <<target_y, source_y>>)

\* lines 147-151: one-dimensional targets
TargetOf(source_x, source_y, target_x, target_y, s) ==
    IF target_x = 0 THEN << RatMul(source_x, s), <<target_y, 1>> >>
    ELSE IF target_y = 0 THEN << <<target_x, 1>>, RatMul(source_y, s) >>
    ELSE << <<target_x, 1>>, <<target_y, 1>> >>

\* line 153
NeedsResize(s, up) == s[1] < s[2] \/ (s[1] > s[2] /\ up)

\* lines 156-157
ResizeDims(source_x, source_y, s, mode) ==
    << Round(RatMul(source_x, s), mode), Round(RatMul(source_y, s), mode) >>

(***************************************************************************)
(* scale_and_crop: cropping.                                               *)
(***************************************************************************)
\* lines 164-165: int(source - min(source, target))
DiffOf(source, t) ==
    IF RatLess(t, <<source, 1>>)
    THEN Trunc(<<source * t[2] - t[1], t[2]>>)
    ELSE 0

\* CenterBox without the clamp to the image's far edges.
CenterBoxUnclamped(source_x, source_y, t, dx, dy) ==
    << dx \div 2, dy \div 2,
       Trunc(t[1]) + dx \div 2, Trunc(t[2]) + dy \div 2 >>

\* lines 168-171
CenterBox(source_x, source_y, t, dx, dy) ==
    LET halfdiff_x == dx \div 2
        halfdiff_y == dy \div 2
    IN  << halfdiff_x, halfdiff_y,
           PyMin(source_x, Trunc(t[1]) + halfdiff_x),
           PyMin(source_y, Trunc(t[2]) + halfdiff_y) >>

Digits == {"0", "1", "2", "3", "4", "5", "6", "7", "8", "9"}
DigitValue(c) ==
    CASE c = "0" -> 0 [] c = "1" -> 1 [] c = "2" -> 2 [] c = "3" -> 3
      [] c = "4" -> 4 [] c = "5" -> 5 [] c = "6" -> 6 [] c = "7" -> 7
      [] c = "8" -> 8 [] c = "9" -> 9

\* int(s) for a string of digits
RECURSIVE PyInt(_)
PyInt(s) ==
    IF Len(s) = 0 THEN 0
    ELSE 10 * PyInt(SubSeq(s, 1, Len(s) - 1)) + DigitValue(s[Len(s)])

\* The end of the run of digits of s that starts at index i (i - 1: none).
RECURSIVE DigitsEnd(_, _)
DigitsEnd(s, i) ==
    IF i <= Len(s) /\ s[i] \in Digits THEN DigitsEnd(s, i + 1) ELSE i - 1

\* A regex group: None, or the string it captured.
NoGroup == [some |-> FALSE, s |-> <<>>]
Group(s) == [some |-> TRUE, s |-> s]
GroupTruthy(g) == g.some /\ Len(g.s) > 0

\* (?:(-?)(\d+))? tried at index i of s: the two groups and the index after.
AxisGroups(s, i) ==
    LET hasSign == i <= Len(s) /\ s[i] = "-"
        j == IF hasSign THEN i + 1 ELSE i
        e == DigitsEnd(s, j)
    IN  IF e >= j
        THEN [sign |-> Group(IF hasSign THEN <<"-">> ELSE <<>>),
              num |-> Group(SubSeq(s, j, e)), next |-> e + 1]
        ELSE [sign |-> NoGroup, num |-> NoGroup, next |-> i]

\* line 174: re.match(r'(?:(-?)(\d+))?,(?:(-?)(\d+))?$', crop)
EdgeMatch(s) ==
    LET x == AxisGroups(s, 1)
        comma == x.next <= Len(s) /\ s[x.next] = ","
        y == AxisGroups(s, x.next + 1)
        atEnd == \/ y.next = Len(s) + 1
                 \/ (y.next = Len(s) /\ s[y.next] = "\n")
    IN  IF comma /\ atEnd
        THEN [matched |-> TRUE, groups |-> <<x.sign, x.num, y.sign, y.num>>]
        ELSE [matched |-> FALSE, groups |-> <<>>]

\* lines 173-175: the guard of the edge cropping branch.  Python 2's filter
\* gives the list of the truthy groups; Python 3's gives an object that is
\* always truthy.  The branch changes nothing when no group is truthy, and
\* crop == 'smart' is false of any string the pattern matches, so both
\* reach the same box.
IsEdgeCrop(c) ==
    /\ c.type = "str"
    /\ EdgeMatch(c.chars).matched
    /\ \E k \in 1..4 : GroupTruthy(EdgeMatch(c.chars).groups[k])

\* EdgeOffset without the clamp to the diff.
EdgeOffsetUnclamped(t, num, d) == (Trunc(t) * PyInt(num.s)) \div 100

\* lines 178 and 186
EdgeOffset(t, num, d) == PyMin((Trunc(t) * PyInt(num.s)) \div 100, d)

\* lines 176-192, applied to the centered box b
EdgeBox(b, c, source_x, source_y, t, dx, dy) ==
    LET g == EdgeMatch(c.chars).groups
        x_right == g[1]
        x_crop == g[2]
        y_bottom == g[3]
        y_crop == g[4]
        ox == EdgeOffset(t[1], x_crop, dx)
        oy == EdgeOffset(t[2], y_crop, dy)
        bx == IF GroupTruthy(x_crop)
              THEN IF GroupTruthy(x_right)
                   THEN <<dx - ox, source_x - ox>>
                   ELSE <<ox, source_x - (dx - ox)>>
              ELSE <<b[1], b[3]>>
        by == IF GroupTruthy(y_crop)
              THEN IF GroupTruthy(y_bottom)
                   THEN <<dy - oy, source_y - oy>>
                   ELSE <<oy, source_y - (dy - oy)>>
              ELSE <<b[2], b[4]>>
    IN  <<bx[1], by[1], bx[2], by[2]>>

Smart == Str(<<"s", "m", "a", "r", "t">>)
ScaleOnly == Str(<<"s", "c", "a", "l", "e">>)

\* im.crop(box): the size of the image returned
CropSize(b) == <<b[3] - b[1], b[4] - b[2]>>

(***************************************************************************)
(* Smart cropping.                                                         *)
(***************************************************************************)
\* utils.image_entropy of a slice, in thousandths of a bit: the values the
\* two calls of lines 20-21 may return.
Entropies == {0, 980, 1000, 1010}

\* line 22: end_entropy and abs(start_entropy / end_entropy - 1) < 0.01
NearlyEqual(s_ent, e_ent) ==
    e_ent # 0 /\ Abs(s_ent - e_ent) * 100 < e_ent

\* _compare_entropy removing a full slice from both sides at every tie.
CompareEntropyNoSplit(s_ent, e_ent, sl, diff) ==
    IF NearlyEqual(s_ent, e_ent) THEN <<sl, sl>>
    ELSE IF s_ent > e_ent THEN <<0, sl>> ELSE <<sl, 0>>

\* _compare_entropy discarding the edge of higher entropy.
CompareEntropySwapped(s_ent, e_ent, sl, diff) ==
    IF NearlyEqual(s_ent, e_ent)
    THEN IF diff >= sl * 2
         THEN <<sl, sl>>
         ELSE LET half_slice == sl \div 2 IN <<half_slice, sl - half_slice>>
    ELSE IF s_ent < e_ent THEN <<0, sl>> ELSE <<sl, 0>>

\* lines 22-31: <<add, remove>>
_compare_entropy(s_ent, e_ent, sl, diff) ==
    IF NearlyEqual(s_ent, e_ent)
    THEN IF diff >= sl * 2
         THEN <<sl, sl>>
         ELSE LET half_slice == sl \div 2 IN <<half_slice, sl - half_slice>>
    ELSE IF s_ent > e_ent THEN <<0, sl>> ELSE <<sl, 0>>

\* SliceOf without the bound by the remaining diff.
SliceOfUnbounded(diff) == PyMax(diff \div 5, 10)

\* lines 198 and 206
SliceOf(diff) == PyMin(diff, PyMax(diff \div 5, 10))

(***************************************************************************)
(* scale_and_crop, up to the smart cropping loops (lines 139-196) and, for *)
(* the other crops, to the return (lines 214-217).                         *)
(***************************************************************************)
scale_and_crop ==
    /\ op = "scale_and_crop" /\ pc = "call"
    /\ \E mode \in PyRoundModes :
        LET s == ScaleOf(im_size[1], im_size[2], size[1], size[2], crop)
            t == TargetOf(im_size[1], im_size[2], size[1], size[2], s)
            resized == NeedsResize(s, upscale)
            im1 == IF resized
                   THEN ResizeDims(im_size[1], im_size[2], s, mode)
                   ELSE im_size
            \* line 162: source_x, source_y = im.size
            dx == DiffOf(im1[1], t[1])
            dy == DiffOf(im1[2], t[2])
            cropping == Truthy(crop) /\ (dx # 0 \/ dy # 0)
            center == CenterBox(im1[1], im1[2], t, dx, dy)
            edge == IsEdgeCrop(crop)
            smart == ~edge /\ crop = Smart
            b == IF edge
                 THEN EdgeBox(center, crop, im1[1], im1[2], t, dx, dy)
                 ELSE center
        IN  /\ scale' = s
            /\ target' = t
            /\ resize_arg' = IF resized THEN im1 ELSE <<>>
            /\ diff_x' = IF Truthy(crop) THEN dx ELSE 0
            /\ diff_y' = IF Truthy(crop) THEN dy ELSE 0
            /\ IF cropping /\ smart
               THEN /\ box' = center
                    /\ left' = 0 /\ top' = 0
                    /\ right' = im1[1] /\ bottom' = im1[2]
                    /\ im' = im1
                    /\ crop_arg' = <<>>
                    /\ sc_result' = sc_result
                    /\ pc' = "smart_x"
               ELSE /\ box' = IF cropping THEN b ELSE <<>>
                    /\ crop_arg' = IF cropping /\ crop # ScaleOnly
                                   THEN b ELSE <<>>
                    /\ im' = IF cropping /\ crop # ScaleOnly
                             THEN CropSize(b) ELSE im1
                    /\ sc_result' = "returned im"
                    /\ pc' = "done"
                    /\ UNCHANGED <<left, top, right, bottom>>
    /\ UNCHANGED <<op, im_size, size, crop, upscale, slice, add, remove,
                   start_entropy, end_entropy, difference, wmVars, awVars>>

\* lines 197-204: one iteration of "while diff_x"
SmartCropX ==
    /\ op = "scale_and_crop" /\ pc = "smart_x"
    /\ diff_x # 0
    /\ \E s_ent \in Entropies, e_ent \in Entropies :
        LET sl == SliceOf(diff_x)
            r == _compare_entropy(s_ent, e_ent, sl, diff_x)
        IN  /\ slice' = sl
            /\ start_entropy' = s_ent /\ end_entropy' = e_ent
            /\ difference' = diff_x
            /\ add' = r[1] /\ remove' = r[2]
            /\ left' = left + r[1]
            /\ right' = right - r[2]
            /\ diff_x' = diff_x - r[1] - r[2]
    /\ UNCHANGED <<op, pc, im_size, size, crop, upscale, scale, target,
                   resize_arg, im, diff_y, box, crop_arg, sc_result, top,
                   bottom, wmVars, awVars>>

\* line 197: the loop ends when diff_x is zero
SmartCropXExit ==
    /\ op = "scale_and_crop" /\ pc = "smart_x"
    /\ diff_x = 0
    /\ pc' = "smart_y"
    /\ UNCHANGED <<op, scVars, wmVars, awVars>>

\* lines 205-212: one iteration of "while diff_y"
SmartCropY ==
    /\ op = "scale_and_crop" /\ pc = "smart_y"
    /\ diff_y # 0
    /\ \E s_ent \in Entropies, e_ent \in Entropies :
        LET sl == SliceOf(diff_y)
            r == _compare_entropy(s_ent, e_ent, sl, diff_y)
        IN  /\ slice' = sl
            /\ start_entropy' = s_ent /\ end_entropy' = e_ent
            /\ difference' = diff_y
            /\ add' = r[1] /\ remove' = r[2]
            /\ top' = top + r[1]
            /\ bottom' = bottom - r[2]
            /\ diff_y' = diff_y - r[1] - r[2]
    /\ UNCHANGED <<op, pc, im_size, size, crop, upscale, scale, target,
                   resize_arg, im, diff_x, box, crop_arg, sc_result, left,
                   right, wmVars, awVars>>

\* lines 205 and 213-217: the loop ends, the box is cropped
SmartCropBox ==
    /\ op = "scale_and_crop" /\ pc = "smart_y"
    /\ diff_y = 0
    /\ box' = <<left, top, right, bottom>>
    /\ crop_arg' = <<left, top, right, bottom>>
    /\ im' = CropSize(<<left, top, right, bottom>>)
    /\ sc_result' = "returned im"
    /\ pc' = "done"
    /\ UNCHANGED <<op, im_size, size, crop, upscale, scale, target,
                   resize_arg, diff_x, diff_y, left, top, right, bottom,
                   slice, add, remove, start_entropy, end_entropy,
                   difference, wmVars, awVars>>

(***************************************************************************)
(* watermark (lines 407-435), called with opacity 1, a tuple for the scale *)
(* and a tuple for the position: mark is mark.size after line 414 and      *)
(* position is what determine_position returns at line 403.                *)
(***************************************************************************)
\* range(start, stop, step) for step > 0
RECURSIVE PyRange(_, _, _)
PyRange(start, stop, step) ==
    IF start >= stop THEN <<>>
    ELSE <<start>> \o PyRange(start + step, stop, step)

\* FirstTile without the step back by one mark.
FirstTileNoWrap(p, m) == p % m

\* lines 427-428
FirstTile(p, m) == (p % m) - m

\* lines 430-432: the origins pasted, in the order of the two loops
TilePastes(pos, m, isz) ==
    LET ys == PyRange(FirstTile(pos[2], m[2]), isz[2], m[2])
        xs == PyRange(FirstTile(pos[1], m[1]), isz[1], m[1])
    IN  [k \in 1..(Len(xs) * Len(ys)) |->
            << xs[((k - 1) % Len(xs)) + 1], ys[((k - 1) \div Len(xs)) + 1] >>]

watermark ==
    /\ op = "watermark" /\ pc = "call"
    /\ IF tile
       THEN /\ first' = << FirstTile(position[1], mark[1]),
                           FirstTile(position[2], mark[2]) >>
            /\ pastes' = TilePastes(position, mark, img)
       ELSE /\ first' = first
            /\ pastes' = <<position>>
    /\ pc' = "done"
    /\ UNCHANGED <<op, img, mark, position, tile, scVars, awVars>>

(***************************************************************************)
(* add_watermark (lines 437-458).                                          *)
(***************************************************************************)
\* The names the module binds: its imports (lines 1-10) and its functions.
\* os, random and ImageEnhance are used by the watermark functions but are
\* not among them, and are no builtins.
ModuleNames ==
    {"re", "six", "Image", "ImageChops", "ImageFilter", "utils",
     "_compare_entropy", "colorspace", "autocrop", "scale_and_crop",
     "filters", "custom_scale", "prefect_scale", "_percent", "_int", "_val",
     "reduce_opacity", "determine_scale", "determine_position", "watermark",
     "add_watermark"}

\* The outcomes of the try block of lines 440-457: everything raised in it
\* is caught, and im is rebound only when watermark returns.  position,
\* opacity and scale are passed both by position and in **kwargs, which is
\* a TypeError at the call of line 455.
TryOutcomes(kwargs) ==
    IF kwargs \cap {"position", "opacity", "scale"} # {}
    THEN {"returned im"}
    ELSE {"returned im", "returned watermarked"}

\* lines 438-458: what a call may end in
AddWatermarkOutcomes(m, exists, kwargs) ==
    IF ~Truthy(m) THEN {"returned im"}
    ELSE IF "os" \notin ModuleNames THEN {"raised NameError"}
    ELSE IF ~exists THEN {"returned im"}
    ELSE TryOutcomes(kwargs)

add_watermark ==
    /\ op = "add_watermark" /\ pc = "call"
    /\ wm_result' \in AddWatermarkOutcomes(wm_mark, wm_exists, wm_kwargs)
    /\ pc' = "done"
    /\ UNCHANGED <<op, wm_mark, wm_exists, wm_kwargs, scVars, wmVars>>

(***************************************************************************)
(* The calls made.                                                         *)
(***************************************************************************)
SrcSizes ==
    ((1..MaxSrc) \X (1..MaxSrc))
        \cup {<<LongSide, MaxSrc>>, <<MaxSrc, LongSide>>}
TgtDims == 0..MaxTgt

\* One axis of an edge cropping string.
AxisPieces ==
    { <<>>, <<"0">>, <<"-", "0">>, <<"-", "1", "0">>, <<"5", "0">>,
      <<"-", "1", "5", "0">> }

CropArgs ==
    {PyNone, PyFalse, PyTrue, Smart, ScaleOnly, Str(<<>>), Str(<<"x">>)}
        \cup { Str(a \o <<",">> \o b) : a \in AxisPieces, b \in AxisPieces }

\* Calls the documentation and the specification give as examples.
DocCalls ==
    { [im_size |-> <<200, 50>>, size |-> <<100, 0>>, crop |-> PyFalse,
       upscale |-> FALSE],
      [im_size |-> <<200, 50>>, size |-> <<50, 50>>,
       crop |-> Str(<<"-", "1", "0", ",", "-", "0">>), upscale |-> FALSE] }

Calls ==
    [im_size : SrcSizes, size : TgtDims \X TgtDims,
     crop : CropArgs, upscale : BOOLEAN] \cup DocCalls

MarkArgs == {PyNone, PyFalse, Str(<<>>), Str(<<"m", ".", "p", "n", "g">>)}
KwargNames == {"position", "opacity", "scale", "tile"}

ScIdle ==
    /\ im_size = <<1, 1>> /\ size = <<1, 1>> /\ crop = PyNone
    /\ upscale = FALSE
ScLocalsInit ==
    /\ scale = <<>> /\ target = <<>> /\ resize_arg = <<>>
    /\ diff_x = 0 /\ diff_y = 0 /\ box = <<>> /\ crop_arg = <<>>
    /\ sc_result = "pending"
    /\ left = 0 /\ top = 0 /\ right = 0 /\ bottom = 0
    /\ slice = 0 /\ add = 0 /\ remove = 0
    /\ start_entropy = 0 /\ end_entropy = 0 /\ difference = 0
WmIdle ==
    /\ img = <<0, 0>> /\ mark = <<1, 1>> /\ position = <<0, 0>>
    /\ tile = FALSE
AwIdle ==
    /\ wm_mark = PyNone /\ wm_exists = FALSE /\ wm_kwargs = {}

InitCallOf(calls) ==
    /\ op = "scale_and_crop"
    /\ \E c \in calls :
        /\ im_size = c.im_size /\ size = c.size
        /\ crop = c.crop /\ upscale = c.upscale
    /\ WmIdle /\ AwIdle

InitScaleAndCrop == InitCallOf(Calls)

InitWatermark ==
    /\ op = "watermark"
    /\ \/ /\ img \in (0..MaxImg) \X (0..MaxImg)
          /\ mark \in (1..MaxMark) \X (1..MaxMark)
          /\ position \in (-MaxPos..MaxPos) \X (-MaxPos..MaxPos)
          /\ tile \in BOOLEAN
       \/ /\ img = <<200, 200>> /\ mark = <<50, 50>>
          /\ position = <<10, 10>> /\ tile = TRUE
    /\ ScIdle /\ AwIdle

InitAddWatermark ==
    /\ op = "add_watermark"
    /\ wm_mark \in MarkArgs
    /\ wm_exists \in BOOLEAN
    /\ wm_kwargs \in SUBSET KwargNames
    /\ ScIdle /\ WmIdle

InitRest ==
    /\ pc = "call"
    /\ ScLocalsInit
    /\ im = im_size
    /\ first = <<>> /\ pastes = <<>>
    /\ wm_result = "pending"

Init ==
    /\ \/ InitScaleAndCrop
       \/ InitWatermark
       \/ InitAddWatermark
    /\ InitRest

Next ==
    \/ scale_and_crop
    \/ SmartCropX
    \/ SmartCropXExit
    \/ SmartCropY
    \/ SmartCropBox
    \/ watermark
    \/ add_watermark

Spec == Init /\ [][Next]_vars

\* The calls of scale_and_crop with crop='smart'.  scale_and_crop is a
\* synchronous function: whenever it has a next step, it takes it.
SmartCalls == { c \in Calls : c.crop = Smart }

InitSmart == InitCallOf(SmartCalls) /\ InitRest

NextSmart ==
    \/ scale_and_crop
    \/ SmartCropX
    \/ SmartCropXExit
    \/ SmartCropY
    \/ SmartCropBox

SmartSpec == InitSmart /\ [][NextSmart]_vars /\ WF_vars(NextSmart)

(***************************************************************************)
(* Properties of scale_and_crop.                                           *)
(***************************************************************************)
ScDone == op = "scale_and_crop" /\ pc = "done"

\* The size of the image after the scaling step: what im.resize was asked
\* for, or the source size when it was not called.
Resized == IF resize_arg = <<>> THEN im_size ELSE resize_arg

\* |v - n/d| <= 1
WithinOnePixel(v, p) == Abs(v * p[2] - p[1]) <= p[2]
\* v is an integer nearest to n/d
IsNearest(v, p) == 2 * Abs(v * p[2] - p[1]) <= p[2]

C1_Case ==
    /\ ScDone
    /\ Truthy(crop) /\ crop # ScaleOnly
    /\ size[1] > 0 /\ size[2] > 0

\* C1: with a truthy crop other than 'scale' and both target axes > 0, the
\* box passed to im.crop lies inside the resized image and has exactly the
\* size (min(resized_width, target_x), min(resized_height, target_y)); no
\* crop is applied when the resized image already has that size, which it
\* then has.
C1_CropBoxInsideAndExact ==
    C1_Case =>
        LET w == PyMin(Resized[1], size[1])
            h == PyMin(Resized[2], size[2])
        IN  /\ (Resized = <<w, h>>) => crop_arg = <<>>
            /\ IF crop_arg = <<>>
               THEN Resized = <<w, h>> /\ im = Resized
               ELSE /\ 0 <= crop_arg[1] /\ crop_arg[1] <= crop_arg[3]
                    /\ crop_arg[3] <= Resized[1]
                    /\ 0 <= crop_arg[2] /\ crop_arg[2] <= crop_arg[4]
                    /\ crop_arg[4] <= Resized[2]
                    /\ CropSize(crop_arg) = <<w, h>>
                    /\ im = <<w, h>>

\* A centered crop of an image that is narrower than the target on one
\* axis and taller on the other.
C1_Witness ==
    /\ C1_Case /\ crop = PyTrue
    /\ crop_arg # <<>>
    /\ Resized[1] < size[1] /\ Resized[2] > size[2]
    /\ crop_arg[2] > 0

C2_Case ==
    /\ ScDone
    /\ ~Truthy(crop)
    /\ size[1] > 0 /\ size[2] > 0

\* min(target_x / source_x, target_y / source_y)
ContainScale ==
    IF size[1] * im_size[2] <= size[2] * im_size[1]
    THEN <<size[1], im_size[1]>> ELSE <<size[2], im_size[2]>>

C2_Scaled ==
    /\ WithinOnePixel(im[1], RatMul(im_size[1], ContainScale))
    /\ WithinOnePixel(im[2], RatMul(im_size[2], ContainScale))

\* C2 as stated: with a falsy crop and both target axes > 0 the returned
\* image has the size of the source times s = min(target_x/source_x,
\* target_y/source_y), to within one pixel, for every source and target.
C2_AlwaysScaled == C2_Case => C2_Scaled

\* C2, amended: that holds when s <= 1 or upscale is set; when s > 1 and
\* upscale is not set the image is returned at the size of the source.
C2_ScaledUnlessUpscaleRefused ==
    C2_Case =>
        IF ContainScale[1] <= ContainScale[2] \/ upscale
        THEN C2_Scaled
        ELSE im = im_size /\ resize_arg = <<>>

\* An upscaling to a size that needed rounding.
C2_Witness ==
    /\ C2_Case /\ upscale
    /\ ContainScale[1] > ContainScale[2]
    /\ resize_arg # <<>> /\ im = resize_arg
    /\ (im[1] * ContainScale[2] # im_size[1] * ContainScale[1]
        \/ im[2] * ContainScale[2] # im_size[2] * ContainScale[1])

\* C3: with a falsy crop, size = (w, 0), w > 0, and w < source_width or
\* upscale set, the output is exactly w wide and round(source_height * w /
\* source_width) high; symmetrically for size = (0, h); size = (100, 0) on
\* a 200x50 source gives (100, 25).
C3_OneDimensionalTarget ==
    (ScDone /\ ~Truthy(crop)) =>
        /\ (size[1] > 0 /\ size[2] = 0
                /\ (size[1] < im_size[1] \/ upscale)) =>
            /\ im[1] = size[1]
            /\ IsNearest(im[2], <<im_size[2] * size[1], im_size[1]>>)
        /\ (size[2] > 0 /\ size[1] = 0
                /\ (size[2] < im_size[2] \/ upscale)) =>
            /\ im[2] = size[2]
            /\ IsNearest(im[1], <<im_size[1] * size[2], im_size[2]>>)
        /\ (im_size = <<200, 50>> /\ size = <<100, 0>>) => im = <<100, 25>>

\* The documented example.
C3_Witness ==
    /\ ScDone /\ ~Truthy(crop)
    /\ im_size = <<200, 50>> /\ size = <<100, 0>>
    /\ resize_arg = <<100, 25>> /\ im = <<100, 25>>

\* What one axis of an edge cropping string says: whether a number is
\* given, whether a '-' leads it, and the number.
PieceMeaning(a) ==
    CASE a = <<>> -> [given |-> FALSE, neg |-> FALSE, p |-> 0]
      [] a = <<"0">> -> [given |-> TRUE, neg |-> FALSE, p |-> 0]
      [] a = <<"-", "0">> -> [given |-> TRUE, neg |-> TRUE, p |-> 0]
      [] a = <<"-", "1", "0">> -> [given |-> TRUE, neg |-> TRUE, p |-> 10]
      [] a = <<"5", "0">> -> [given |-> TRUE, neg |-> FALSE, p |-> 50]
      [] a = <<"-", "1", "5", "0">> ->
            [given |-> TRUE, neg |-> TRUE, p |-> 150]

\* One axis of the box of an edge crop: lo and hi are the box's start and
\* end on the axis, tgt the target and rsz the resized size on it.
C4_Axis(m, tgt, rsz, lo, hi) ==
    LET d == rsz - PyMin(rsz, tgt)
        offset == PyMin((tgt * m.p) \div 100, d)
    IN  IF m.given
        THEN /\ 0 <= offset /\ offset <= d
             /\ IF m.neg THEN hi = rsz - offset ELSE lo = offset
        ELSE lo = d \div 2

C4_Is(a, b) == crop = Str(a \o <<",">> \o b)

\* C4: in an edge crop '[-]X,[-]Y', on each axis with a number p the offset
\* is min(target_axis * p // 100, diff_axis), in [0, diff_axis]; without a
\* '-' the box starts at the offset from the left/top edge, with a '-' it
\* ends at the offset from the right/bottom edge; an axis without a number
\* keeps the centered box (start = diff_axis // 2).  So '0,0' is flush left
\* and top, '-10,-0' is 10% of the target width from the right edge and
\* flush bottom, ',0' is horizontally centered and flush top.
C4_EdgeOffsets ==
    (ScDone /\ crop_arg # <<>>) =>
        /\ \A a \in AxisPieces, b \in AxisPieces :
            C4_Is(a, b) =>
                /\ C4_Axis(PieceMeaning(a), size[1], Resized[1],
                           crop_arg[1], crop_arg[3])
                /\ C4_Axis(PieceMeaning(b), size[2], Resized[2],
                           crop_arg[2], crop_arg[4])
        /\ C4_Is(<<"0">>, <<"0">>) => crop_arg[1] = 0 /\ crop_arg[2] = 0
        /\ C4_Is(<<"-", "1", "0">>, <<"-", "0">>) =>
            /\ crop_arg[3] = Resized[1] - PyMin((size[1] * 10) \div 100,
                                    Resized[1] - PyMin(Resized[1], size[1]))
            /\ crop_arg[4] = Resized[2]
        /\ C4_Is(<<>>, <<"0">>) =>
            /\ crop_arg[1] = (Resized[1] - PyMin(Resized[1], size[1])) \div 2
            /\ crop_arg[2] = 0

\* crop='-10,-0' for a 50x50 thumbnail of a 200x50 image: the box ends 5
\* pixels (10% of 50) from the right edge.
C4_Witness ==
    /\ ScDone /\ C4_Is(<<"-", "1", "0">>, <<"-", "0">>)
    /\ im_size = <<200, 50>> /\ size = <<50, 50>>
    /\ crop_arg = <<145, 0, 195, 50>>

\* C5: with size = (0, 0), scale_and_crop fails with InvalidTargetSize
\* instead of computing a scale, resizing or returning an image.
C5_ZeroTargetRejected ==
    (ScDone /\ size = <<0, 0>>) =>
        /\ sc_result = "raised InvalidTargetSize"
        /\ scale = <<>>
        /\ resize_arg = <<>>

(***************************************************************************)
(* Properties of add_watermark and watermark.                              *)
(***************************************************************************)
\* C6: add_watermark never propagates a failure: it raises nothing, and it
\* returns the image it received when mark is falsy or the watermark file
\* is missing.
C6_NeverPropagates ==
    (op = "add_watermark" /\ pc = "done") =>
        /\ wm_result \in {"returned im", "returned watermarked"}
        /\ (~Truthy(wm_mark) \/ ~wm_exists) => wm_result = "returned im"

TileDone == op = "watermark" /\ pc = "done" /\ tile

\* The pastes that paint pixel <<px, py>> of the layer.
Covering(px, py) ==
    { k \in 1..Len(pastes) :
        /\ pastes[k][1] <= px /\ px < pastes[k][1] + mark[1]
        /\ pastes[k][2] <= py /\ py < pastes[k][2] + mark[2] }

\* C7: when tiling, the first tile origin on each axis is position mod
\* mark_size - mark_size, in [-mark_size, -1]; every origin is congruent to
\* the position modulo mark_size, the origins on an axis are mark_size
\* apart, and every pixel of the layer is covered by exactly one tile; a
\* 50x50 mark at (10, 10) on a 200x200 image starts at (-40, -40).
C7_TilesCoverExactlyOnce ==
    TileDone =>
        /\ \A i \in 1..2 :
            /\ -mark[i] <= first[i] /\ first[i] <= -1
            /\ (position[i] - first[i]) % mark[i] = 0
            /\ \A k \in 1..Len(pastes) :
                /\ (pastes[k][i] - position[i]) % mark[i] = 0
                /\ pastes[k][i] >= first[i]
                /\ pastes[k][i] < img[i]
        /\ \A k \in 1..Len(pastes), j \in 1..Len(pastes) :
            (k # j) => pastes[k] # pastes[j]
        /\ \A px \in 0..(img[1] - 1), py \in 0..(img[2] - 1) :
            Cardinality(Covering(px, py)) = 1
        /\ (img = <<200, 200>> /\ mark = <<50, 50>>
                /\ position = <<10, 10>>) =>
            first = <<-40, -40>> /\ pastes[1] = <<-40, -40>>

\* Tiling from a position left of the image and below it, with tiles cut
\* by the image's edges.
C7_Witness ==
    /\ TileDone
    /\ position[1] < 0 /\ position[2] >= img[2]
    /\ img[1] >= 3 /\ img[2] >= 3
    /\ mark = <<2, 2>>
    /\ first = <<-1, -1>>
    /\ Len(pastes) = 4

(***************************************************************************)
(* Properties of the smart cropping loops.                                 *)
(***************************************************************************)
\* One iteration of the loop over x, of the loop over y.
StepX == pc = "smart_x" /\ pc' = "smart_x"
StepY == pc = "smart_y" /\ pc' = "smart_y"

\* The entropies differ by less than 1% (of the end slice's entropy).
DifferByLessThan1Pct(s_ent, e_ent) ==
    s_ent = e_ent \/ Abs(s_ent - e_ent) * 100 < e_ent

\* What the tie rule removes: lo and hi are the start and the end edge.
RemovedFromBoth(lo, hi) ==
    IF difference' >= 2 * slice'
    THEN lo' = lo + slice' /\ hi' = hi - slice'
    ELSE /\ lo' = lo + (slice' \div 2)
         /\ hi' = hi - (slice' - (slice' \div 2))

\* C8 as stated: in every step where the entropies of the two slices
\* differ by less than 1%, pixels are removed from both sides: a full slice
\* from each when diff >= 2 * slice, else floor(slice / 2) from the start
\* and the rest of the slice from the end.
C8_TieRemovesBoth ==
    [][ /\ (StepX /\ DifferByLessThan1Pct(start_entropy', end_entropy'))
            => RemovedFromBoth(left, right)
        /\ (StepY /\ DifferByLessThan1Pct(start_entropy', end_entropy'))
            => RemovedFromBoth(top, bottom) ]_vars

\* C8, amended: that holds in every step where the end slice's entropy is
\* not zero and the entropies differ by less than 1% of it.
C8_NonzeroTieRemovesBoth ==
    [][ /\ (StepX /\ end_entropy' # 0
                /\ DifferByLessThan1Pct(start_entropy', end_entropy'))
            => RemovedFromBoth(left, right)
        /\ (StepY /\ end_entropy' # 0
                /\ DifferByLessThan1Pct(start_entropy', end_entropy'))
            => RemovedFromBoth(top, bottom) ]_vars

\* A tie of two different nonzero entropies, with less than two slices
\* left, has split an odd slice.
C8_Witness ==
    /\ op = "scale_and_crop" /\ pc = "smart_x"
    /\ end_entropy # 0 /\ start_entropy # end_entropy
    /\ DifferByLessThan1Pct(start_entropy, end_entropy)
    /\ slice > 0 /\ slice % 2 = 1 /\ difference < 2 * slice
    /\ add = slice \div 2 /\ remove = slice - add
    /\ left >= add /\ right <= Resized[1] - remove

\* C9: in every step where the entropies differ by 1% or more, the whole
\* slice is removed from the edge whose slice has the lower entropy, and
\* the other edge loses nothing.
C9_LowerEntropyEdgeDiscarded ==
    [][ /\ (StepX /\ ~DifferByLessThan1Pct(start_entropy', end_entropy'))
            => IF start_entropy' < end_entropy'
               THEN left' = left + slice' /\ right' = right
               ELSE /\ end_entropy' < start_entropy'
                    /\ right' = right - slice' /\ left' = left
        /\ (StepY /\ ~DifferByLessThan1Pct(start_entropy', end_entropy'))
            => IF start_entropy' < end_entropy'
               THEN top' = top + slice' /\ bottom' = bottom
               ELSE /\ end_entropy' < start_entropy'
                    /\ bottom' = bottom - slice' /\ top' = top ]_vars

\* A step on y that took the whole slice from the bottom edge, whose slice
\* had the lower, nonzero entropy.
C9_Witness ==
    /\ op = "scale_and_crop" /\ pc = "smart_y"
    /\ end_entropy # 0 /\ end_entropy < start_entropy
    /\ ~DifferByLessThan1Pct(start_entropy, end_entropy)
    /\ slice > 0 /\ add = 0 /\ remove = slice
    /\ top = 0 /\ bottom = Resized[2] - slice

\* The diff each loop starts from.
InitialDiff(i) == Resized[i] - PyMin(Resized[i], size[i])

C10_Step(d, dNext) ==
    /\ slice' = PyMin(d, PyMax(d \div 5, 10))
    /\ 1 <= slice' /\ slice' <= d
    /\ 1 <= add' + remove' /\ add' + remove' <= d
    /\ add' >= 0 /\ remove' >= 0
    /\ dNext = d - add' - remove'
    /\ 0 <= dNext /\ dNext < d

C10_Conserved ==
    (op = "scale_and_crop" /\ pc \in {"smart_x", "smart_y"}) =>
        /\ left + (Resized[1] - right) + diff_x = InitialDiff(1)
        /\ top + (Resized[2] - bottom) + diff_y = InitialDiff(2)

\* C10: each smart cropping loop ends, with the remaining diff at zero: in
\* every iteration slice = min(diff, max(diff // 5, 10)) is between 1 and
\* diff, between 1 and diff pixels are removed, so the diff decreases and
\* is never negative; left + (resized - right) + diff stays the initial
\* diff; the loop is left only at diff zero.
C10_SmartCropTerminates ==
    /\ []C10_Conserved
    /\ [][ /\ StepX => C10_Step(diff_x, diff_x')
           /\ StepY => C10_Step(diff_y, diff_y')
           /\ (pc = "smart_x" /\ pc' # "smart_x") => diff_x = 0
           /\ (pc = "smart_y" /\ pc' # "smart_y") => diff_y = 0 ]_vars
    /\ (pc = "smart_x") ~> (pc = "smart_y" /\ diff_x = 0)
    /\ (pc = "smart_y") ~> (pc = "done" /\ diff_x = 0 /\ diff_y = 0)

\* Inside the loop over x, after slices were taken from both edges, with a
\* slice of a fifth of the diff taken last.
C10_Witness ==
    /\ op = "scale_and_crop" /\ pc = "smart_x"
    /\ diff_x > 0
    /\ left > 0 /\ right < Resized[1]
    /\ slice > 10 /\ slice = difference \div 5

====
